---- MODULE Spec2Model ----
(***************************************************************************)
(* nextcloud-exporter: the status client (package client) and the          *)
(* Prometheus collector (package metrics) of internal/client/client.go.    *)
(*                                                                         *)
(* A channel of metrics is modelled by the bag of the samples sent on it:  *)
(* collectMap ranges over a Go map, whose iteration order is unspecified,  *)
(* and the bag is what every order has in common.                          *)
(***************************************************************************)
EXTENDS Bags, FiniteSets, Integers, Sequences, TLC

VARIABLES
    config,              \* the InfoClient in use and the arguments New() closed over
    req,                 \* the request the InfoClient built last
    upMetric,            \* value of the gauge nextcloud_up
    scrapeErrorsMetric,  \* children of the CounterVec: cause label -> count
    ch,                  \* samples the last sequential Collect() sent
    descCh,              \* descriptors the last Describe() sent
    lastFetch,           \* what the last sequential Collect() fetched
    fetches,             \* number of infoClient() invocations so far
    pc,                  \* position of each overlapping Collect() call
    callErr,             \* err of each overlapping call's collectNextcloud
    callCh               \* samples each overlapping call sent

vars == <<config, req, upMetric, scrapeErrorsMetric, ch, descCh, lastFetch,
          fetches, pc, callErr, callCh>>

---------------------------------------------------------------------------
(* Bounds *)

\* number of Collect() calls of one sequential run
MaxCalls == 2
\* largest multiplier of the scalar fields of a status document
MaxVal == 1
\* largest value of the link-share counters
MaxShares == 1
\* number of Collect() calls that overlap
NumCalls == 2

---------------------------------------------------------------------------
(* package client *)

StatusOK == 200
StatusUnauthorized == 401
StatusTooManyRequests == 429

\* errors are records, so that any two of them can be compared
Err(kind, code) == [kind |-> kind, code |-> code]
nil == Err("nil", 0)
ErrNotAuthorized == Err("wrong credentials", 0)
ErrRatelimit == Err("too many requests", 0)
ErrUnexpectedStatus(code) == Err("unexpected status code", code)
ErrTransport == Err("transport", 0)
ErrParse == Err("can not parse server info", 0)
ErrInjected == Err("injected", 0)

\* a string that is not valid UTF-8, and what a JSON decoder makes of it
InvalidUTF8 == "<invalid utf-8>"
Replacement == "U+FFFD"

\* serverinfo.ServerInfo, field by field as client.go reads it
ServerInfo(n, link, noPassword, sysVersion, phpVersion, dbVersion, dbType) ==
    [Data |->
      [Nextcloud |->
        [System |-> [Version |-> sysVersion,
                     Apps |-> [Installed |-> n * 1, AvailableUpdates |-> n * 2],
                     FreeSpace |-> n * 5],
         Storage |-> [Users |-> n * 3, Files |-> n * 4],
         Shares |-> [SharesUser |-> n * 18, SharesGroups |-> n * 19,
                     SharesLink |-> link, SharesLinkNoPassword |-> noPassword,
                     FedSent |-> n * 20, FedReceived |-> n * 21]],
       ActiveUsers |-> [Last5Minutes |-> n * 6],
       Server |->
        [PHP |-> [Version |-> phpVersion,
                  MemoryLimit |-> n * 7,
                  UploadMaxFilesize |-> n * 8,
                  OpCache |-> [Stats |-> [Hits |-> n * 9, Misses |-> n * 10,
                                          CachedScripts |-> n * 11,
                                          CachedKeys |-> n * 12]],
                  APCu |-> [Cache |-> [Hits |-> n * 13, Misses |-> n * 14,
                                       Inserts |-> n * 15, Entries |-> n * 16]]],
         Database |-> [Size |-> n * 17, Version |-> dbVersion, Type |-> dbType]]]]

\* the documents a caller of the package can hand to the collector
\* the four strings of a document: all valid, or one of them not valid UTF-8
\* (one is enough to fail each of the constructions that take a label value)
LabelChoices ==
    { <<"25.0.1", "8.1.2", "10.5.8", "mysql">>,
      <<InvalidUTF8, "8.1.2", "10.5.8", "mysql">>,
      <<"25.0.1", InvalidUTF8, "10.5.8", "mysql">>,
      <<"25.0.1", "8.1.2", InvalidUTF8, "mysql">>,
      <<"25.0.1", "8.1.2", "10.5.8", InvalidUTF8>> }

ServerInfos ==
    { ServerInfo(n, l, p, s[1], s[2], s[3], s[4]) :
        n \in 0..MaxVal, l \in 0..MaxShares, p \in 0..MaxShares, s \in LabelChoices }

\* the pointer a failed call returns with its error
NilServerInfo == ServerInfo(0, 0, 0, "", "", "", "")

\* response bodies: a JSON text (given by the document it encodes) or not JSON
Malformed == [json |-> FALSE, doc |-> NilServerInfo]
JSONBody(doc) == [json |-> TRUE, doc |-> doc]
Bodies == {Malformed} \cup { JSONBody(d) : d \in ServerInfos }

\* what client.Do can return
TransportFailure == [ok |-> FALSE, StatusCode |-> 0, Body |-> Malformed]
StatusCodes == {StatusOK, StatusUnauthorized, StatusTooManyRequests, 404, 500, 503}
Responses ==
    {TransportFailure}
    \cup { [ok |-> TRUE, StatusCode |-> c, Body |-> Malformed] : c \in StatusCodes }
    \cup { [ok |-> TRUE, StatusCode |-> StatusOK, Body |-> b] : b \in Bodies }

\* the arguments of New()
\* the header of the request: names present -> values
NoHeader == [h \in {} |-> ""]
HeaderSet(header, name, value) ==
    [h \in (DOMAIN header) \cup {name} |-> IF h = name THEN value ELSE header[h]]
SetBasicAuth(header, username, password) ==
    HeaderSet(header, "Authorization", <<"Basic", username, password>>)

\* a request that sets basic auth whatever the token is
NewRequestBothAuth(cfg) ==
    LET h0 == SetBasicAuth(NoHeader, cfg.username, cfg.password)
        h1 == IF cfg.authToken = "" THEN h0
                                    ELSE HeaderSet(h0, "NC-Token", <<cfg.authToken>>)
    IN  [Method |-> "GET", Header |-> HeaderSet(h1, "User-Agent", <<cfg.userAgent>>)]

NewRequest(cfg) ==
    LET h0 == NoHeader
        h1 == IF cfg.authToken = ""
                THEN SetBasicAuth(h0, cfg.username, cfg.password)
                ELSE HeaderSet(h0, "NC-Token", <<cfg.authToken>>)
    IN  [Method |-> "GET", Header |-> HeaderSet(h1, "User-Agent", <<cfg.userAgent>>)]

NoRequest == [Method |-> "", Header |-> NoHeader]

\* encoding/json replaces invalid UTF-8 in a string by U+FFFD
Sanitize(s) == IF s = InvalidUTF8 THEN Replacement ELSE s

ParseJSON(body) ==
    IF ~body.json
      THEN [status |-> NilServerInfo, err |-> ErrParse]
      ELSE LET d == body.doc
               sys == d.Data.Nextcloud.System
               php == d.Data.Server.PHP
               db  == d.Data.Server.Database
           IN  [status |->
                  [d EXCEPT !.Data.Nextcloud.System.Version = Sanitize(sys.Version),
                            !.Data.Server.PHP.Version = Sanitize(php.Version),
                            !.Data.Server.Database.Version = Sanitize(db.Version),
                            !.Data.Server.Database.Type = Sanitize(db.Type)],
                err |-> nil]

\* the closure New() returns, applied to the response client.Do gets
InfoClient(res) ==
    IF ~res.ok THEN [status |-> NilServerInfo, err |-> ErrTransport]
    ELSE IF res.StatusCode = StatusUnauthorized
      THEN [status |-> NilServerInfo, err |-> ErrNotAuthorized]
    ELSE IF res.StatusCode = StatusTooManyRequests
      THEN [status |-> NilServerInfo, err |-> ErrRatelimit]
    ELSE IF res.StatusCode # StatusOK
      THEN [status |-> NilServerInfo, err |-> ErrUnexpectedStatus(res.StatusCode)]
    ELSE ParseJSON(res.Body)

---------------------------------------------------------------------------
(* package metrics: descriptors *)

labelErrorCauseOther == "other"
labelErrorCauseAuth == "auth"

NewDesc(fqName, variableLabels) == [fqName |-> fqName, variableLabels |-> variableLabels]

systemInfoDesc == NewDesc("nextcloud_system_info", <<"version">>)
appsInstalledDesc == NewDesc("nextcloud_apps_installed_total", <<>>)
appsUpdatesDesc == NewDesc("nextcloud_apps_updates_available_total", <<>>)
usersDesc == NewDesc("nextcloud_users_total", <<>>)
filesDesc == NewDesc("nextcloud_files_total", <<>>)
freeSpaceDesc == NewDesc("nextcloud_free_space_bytes", <<>>)
sharesDesc == NewDesc("nextcloud_shares_total", <<"type">>)
federationsDesc == NewDesc("nextcloud_shares_federated_total", <<"direction">>)
activeUsersDesc == NewDesc("nextcloud_active_users_total", <<>>)
phpInfoDesc == NewDesc("nextcloud_php_info", <<"version">>)
phpMemoryLimitDesc == NewDesc("nextcloud_php_memory_limit_bytes", <<>>)
phpMaxUploadSizeDesc == NewDesc("nextcloud_php_upload_max_size_bytes", <<>>)
phpOpCacheHits == NewDesc("nextcloud_php_opcache_hits_total", <<>>)
phpOpCacheMisses == NewDesc("nextcloud_php_opcache_misses_total", <<>>)
phpOpCachedScripts == NewDesc("nextcloud_php_opcache_scripts_total", <<>>)
phpOpCachedKeys == NewDesc("nextcloud_php_opcache_keys_total", <<>>)
phpAPCuHits == NewDesc("nextcloud_php_apcu_hits_total", <<>>)
phpAPCuMisses == NewDesc("nextcloud_php_apcu_misses_total", <<>>)
phpAPCuInserts == NewDesc("nextcloud_php_apcu_inserts_total", <<>>)
phpAPCuEntries == NewDesc("nextcloud_php_apcu_keys_total", <<>>)
databaseSizeDesc == NewDesc("nextcloud_database_size_bytes", <<"version", "type">>)

\* the descriptors of the two metrics RegisterCollector creates
upDesc == NewDesc("nextcloud_up", <<>>)
scrapeErrorsDesc == NewDesc("nextcloud_scrape_errors_total", <<"cause">>)

---------------------------------------------------------------------------
(* package metrics: building and sending samples *)

NoMetric == [desc |-> "", value |-> 0, labelValues |-> <<>>]

\* prometheus.NewConstMetric: fails on a label count that differs from the
\* descriptor's and on a label value that is not valid UTF-8
NewConstMetric(desc, value, labelValues) ==
    IF Len(labelValues) # Len(desc.variableLabels)
      THEN [metric |-> NoMetric, err |-> Err("inconsistent label cardinality", 0)]
    ELSE IF \E i \in 1..Len(labelValues) : labelValues[i] = InvalidUTF8
      THEN [metric |-> NoMetric, err |-> Err("label value is not valid UTF-8", 0)]
    ELSE [metric |-> [desc |-> desc.fqName, value |-> value, labelValues |-> labelValues],
          err |-> nil]

\* ch <- metric
Send(c, metric) == c (+) SetToBag({metric})

\* float64(n): exact for the integers of this model (|n| < 2^53)
float64(n) == n

\* the table of collectSimpleMetrics
simpleMetrics(status) ==
    << [desc |-> appsInstalledDesc, value |-> float64(status.Data.Nextcloud.System.Apps.Installed)],
       [desc |-> appsUpdatesDesc, value |-> float64(status.Data.Nextcloud.System.Apps.AvailableUpdates)],
       [desc |-> usersDesc, value |-> float64(status.Data.Nextcloud.Storage.Users)],
       [desc |-> filesDesc, value |-> float64(status.Data.Nextcloud.Storage.Files)],
       [desc |-> freeSpaceDesc, value |-> float64(status.Data.Nextcloud.System.FreeSpace)],
       [desc |-> activeUsersDesc, value |-> float64(status.Data.ActiveUsers.Last5Minutes)],
       [desc |-> phpMemoryLimitDesc, value |-> float64(status.Data.Server.PHP.MemoryLimit)],
       [desc |-> phpMaxUploadSizeDesc, value |-> float64(status.Data.Server.PHP.UploadMaxFilesize)],
       [desc |-> phpOpCacheHits, value |-> float64(status.Data.Server.PHP.OpCache.Stats.Hits)],
       [desc |-> phpOpCacheMisses, value |-> float64(status.Data.Server.PHP.OpCache.Stats.Misses)],
       [desc |-> phpOpCachedScripts, value |-> float64(status.Data.Server.PHP.OpCache.Stats.CachedScripts)],
       [desc |-> phpOpCachedKeys, value |-> float64(status.Data.Server.PHP.OpCache.Stats.CachedKeys)],
       [desc |-> phpAPCuHits, value |-> float64(status.Data.Server.PHP.APCu.Cache.Hits)],
       [desc |-> phpAPCuMisses, value |-> float64(status.Data.Server.PHP.APCu.Cache.Misses)],
       [desc |-> phpAPCuInserts, value |-> float64(status.Data.Server.PHP.APCu.Cache.Inserts)],
       [desc |-> phpAPCuEntries, value |-> float64(status.Data.Server.PHP.APCu.Cache.Entries)] >>

\* the loop of collectSimpleMetrics from entry i on
RECURSIVE simpleLoop(_, _, _)
simpleLoop(c, metrics, i) ==
    IF i > Len(metrics) THEN [ch |-> c, err |-> nil]
    ELSE LET r == NewConstMetric(metrics[i].desc, metrics[i].value, <<>>)
         IN  IF r.err # nil
               THEN [ch |-> c, err |-> Err("error creating metric", 0)]
               ELSE simpleLoop(Send(c, r.metric), metrics, i + 1)

collectSimpleMetrics(c, status) == simpleLoop(c, simpleMetrics(status), 1)

\* the loop of collectMap over the keys not yet visited. The order in which
\* range visits a map is unspecified; every key of this program is a literal
\* valid label, no iteration fails, and the bag sent is the same in any order.
RECURSIVE mapLoop(_, _, _, _)
mapLoop(c, desc, labelValueMap, keys) ==
    IF keys = {} THEN [ch |-> c, err |-> nil]
    ELSE LET k == CHOOSE x \in keys : TRUE
             r == NewConstMetric(desc, labelValueMap[k], <<k>>)
         IN  IF r.err # nil
               THEN [ch |-> c, err |-> Err("error creating shares metric", 0)]
               ELSE mapLoop(Send(c, r.metric), desc, labelValueMap, keys \ {k})

\* a collectMap that leaves out the entries whose value is zero
collectMapSkipZero(c, desc, labelValueMap) ==
    mapLoop(c, desc, labelValueMap, { k \in DOMAIN labelValueMap : labelValueMap[k] # 0 })

collectMap(c, desc, labelValueMap) ==
    mapLoop(c, desc, labelValueMap, DOMAIN labelValueMap)

\* a collectShares that clamps the authlink difference at zero
collectSharesClamped(c, shares) ==
    LET d == shares.SharesLink - shares.SharesLinkNoPassword
        values == [k \in {"user", "group", "authlink", "link"} |->
                     CASE k = "user" -> float64(shares.SharesUser)
                       [] k = "group" -> float64(shares.SharesGroups)
                       [] k = "authlink" -> float64(IF d < 0 THEN 0 ELSE d)
                       [] k = "link" -> float64(shares.SharesLink)]
    IN  collectMap(c, sharesDesc, values)

collectShares(c, shares) ==
    LET values == [k \in {"user", "group", "authlink", "link"} |->
                     CASE k = "user" -> float64(shares.SharesUser)
                       [] k = "group" -> float64(shares.SharesGroups)
                       [] k = "authlink" ->
                            float64(shares.SharesLink - shares.SharesLinkNoPassword)
                       [] k = "link" -> float64(shares.SharesLink)]
    IN  collectMap(c, sharesDesc, values)

collectFederatedShares(c, shares) ==
    LET values == [k \in {"sent", "received"} |->
                     CASE k = "sent" -> float64(shares.FedSent)
                       [] k = "received" -> float64(shares.FedReceived)]
    IN  collectMap(c, federationsDesc, values)

\* a collectInfoMetric that forgets to pass the label values on
collectInfoMetricNoLabels(c, desc, labelValues) ==
    LET r == NewConstMetric(desc, 1, <<>>)
    IN  IF r.err # nil THEN [ch |-> c, err |-> r.err]
                       ELSE [ch |-> Send(c, r.metric), err |-> nil]

collectInfoMetric(c, desc, labelValues) ==
    LET r == NewConstMetric(desc, 1, labelValues)
    IN  IF r.err # nil THEN [ch |-> c, err |-> r.err]
                       ELSE [ch |-> Send(c, r.metric), err |-> nil]

readMetrics(c, status) ==
    LET r1 == collectSimpleMetrics(c, status)
    IN  IF r1.err # nil THEN r1 ELSE
    LET r2 == collectShares(r1.ch, status.Data.Nextcloud.Shares)
    IN  IF r2.err # nil THEN r2 ELSE
    LET r3 == collectFederatedShares(r2.ch, status.Data.Nextcloud.Shares)
    IN  IF r3.err # nil THEN r3 ELSE
    LET db == NewConstMetric(databaseSizeDesc,
                             float64(status.Data.Server.Database.Size),
                             <<status.Data.Server.Database.Version,
                               status.Data.Server.Database.Type>>)
    IN  IF db.err # nil THEN [ch |-> r3.ch, err |-> db.err] ELSE
    LET r5 == collectInfoMetric(Send(r3.ch, db.metric), systemInfoDesc,
                                <<status.Data.Nextcloud.System.Version>>)
    IN  IF r5.err # nil THEN r5 ELSE
        collectInfoMetric(r5.ch, phpInfoDesc, <<status.Data.Server.PHP.Version>>)

\* the documents c.infoClient() can return: injected ones and parsed ones
Statuses == ServerInfos \cup { ParseJSON(b).status : b \in Bodies }

\* readMetrics on a fresh channel, tabulated over the documents of the model
readMetricsOf == [status \in Statuses |-> readMetrics(EmptyBag, status)]

\* a collectNextcloud that serves the last good document when the fetch fails
collectNextcloudStale(c, fetched) ==
    IF fetched.err # nil
      THEN IF fetches > 0 /\ lastFetch.fetched.err = nil
             THEN LET r == readMetricsOf[lastFetch.fetched.status]
                  IN  [ch |-> c (+) r.ch, err |-> r.err]
             ELSE [ch |-> c, err |-> fetched.err]
      ELSE LET r == readMetricsOf[fetched.status]
           IN  [ch |-> c (+) r.ch, err |-> r.err]

\* collectNextcloud, given what c.infoClient() returned
collectNextcloud(c, fetched) ==
    IF fetched.err # nil
      THEN [ch |-> c, err |-> fetched.err]
      ELSE LET r == readMetricsOf[fetched.status]
           IN  [ch |-> c (+) r.ch, err |-> r.err]

---------------------------------------------------------------------------
(* package metrics: the collector *)

\* an error branch that takes a rate limit for a wrong credential too
errorCauseRatelimitAuth(err) ==
    IF err \in {ErrNotAuthorized, ErrRatelimit} THEN labelErrorCauseAuth
                                                ELSE labelErrorCauseOther

\* the error branch of Collect: the cause label of an error
errorCause(err) ==
    IF err = ErrNotAuthorized THEN labelErrorCauseAuth ELSE labelErrorCauseOther

\* value of a child of the CounterVec; a child exists once WithLabelValues named it
Count(m, cause) == IF cause \in DOMAIN m THEN m[cause] ELSE 0

\* an increment that stores 1 instead of adding 1
WithLabelValuesSetOne(m, cause) ==
    [k \in (DOMAIN m) \cup {cause} |-> IF k = cause THEN 1 ELSE m[k]]

\* c.scrapeErrorsMetric.WithLabelValues(cause).Inc()
WithLabelValuesInc(m, cause) ==
    [k \in (DOMAIN m) \cup {cause} |-> IF k = cause THEN Count(m, k) + 1 ELSE m[k]]

\* c.upMetric.Collect(ch): the gauge sends its current value
upMetricCollect(c, up) ==
    Send(c, [desc |-> upDesc.fqName, value |-> up, labelValues |-> <<>>])

\* a Collect that leaves the counter vector out
scrapeErrorsMetricCollectNone(c, m) == c

\* c.scrapeErrorsMetric.Collect(ch): the vector sends one sample per child
scrapeErrorsMetricCollect(c, m) ==
    c (+) SetToBag({ [desc |-> scrapeErrorsDesc.fqName, value |-> m[k],
                      labelValues |-> <<k>>] : k \in DOMAIN m })

\* what Describe sends
describeDescs ==
    << upDesc, scrapeErrorsDesc, usersDesc, filesDesc, freeSpaceDesc,
       sharesDesc, federationsDesc, activeUsersDesc >>

\* what c.infoClient() can return when a caller injects its own InfoClient
InjectedResults ==
    { [status |-> d, err |-> nil] : d \in ServerInfos }
    \cup { [status |-> NilServerInfo, err |-> e] : e \in {ErrInjected, ErrNotAuthorized} }

NoResponse == [ok |-> FALSE, StatusCode |-> -1, Body |-> Malformed]
NoFetch == [res |-> NoResponse, fetched |-> [status |-> NilServerInfo, err |-> nil]]

\* one invocation of c.infoClient(): the response (client.New) and the result
Fetches(client) ==
    IF client = "client.New"
      THEN { [res |-> r, fetched |-> InfoClient(r)] : r \in Responses }
      ELSE { [res |-> NoResponse, fetched |-> f] : f \in InjectedResults }

Calls == 1..NumCalls

\* RegisterCollector: a fresh gauge (0) and a CounterVec without children
InitCollector ==
    /\ upMetric = 0
    /\ scrapeErrorsMetric = [k \in {} |-> 0]
    /\ ch = EmptyBag
    /\ descCh = <<>>
    /\ lastFetch = NoFetch
    /\ fetches = 0
    /\ req = NoRequest
    /\ pc = [p \in Calls |-> "idle"]
    /\ callErr = [p \in Calls |-> nil]
    /\ callCh = [p \in Calls |-> EmptyBag]

\* the arguments of New()
Configs ==
    [client : {"client.New"}, username : {"", "admin"}, password : {"", "secret"},
     authToken : {"", "tok"}, userAgent : {"", "nextcloud-exporter"}]

\* a collector over client.New(...) with basic auth, or over an injected InfoClient
Init ==
    /\ InitCollector
    /\ config \in { [client |-> "client.New", username |-> "admin",
                     password |-> "secret", authToken |-> "",
                     userAgent |-> "nextcloud-exporter"],
                    [client |-> "injected", username |-> "", password |-> "",
                     authToken |-> "", userAgent |-> ""] }

Describe ==
    /\ descCh' = describeDescs
    /\ UNCHANGED <<config, req, upMetric, scrapeErrorsMetric, ch, lastFetch,
                   fetches, pc, callErr, callCh>>

\* one whole Collect(), no other call overlapping it
Collect ==
    /\ fetches < MaxCalls
    /\ \E f \in Fetches(config.client) :
         LET r == collectNextcloud(EmptyBag, f.fetched)
             errs == IF r.err # nil
                       THEN WithLabelValuesInc(scrapeErrorsMetric, errorCause(r.err))
                       ELSE scrapeErrorsMetric
             up == IF r.err # nil THEN 0 ELSE 1
         IN  /\ lastFetch' = f
             /\ req' = IF config.client = "client.New" THEN NewRequest(config) ELSE req
             /\ scrapeErrorsMetric' = errs
             /\ upMetric' = up
             /\ ch' = scrapeErrorsMetricCollect(upMetricCollect(r.ch, up), errs)
    /\ fetches' = fetches + 1
    /\ UNCHANGED <<config, descCh, pc, callErr, callCh>>

Next == Describe \/ Collect

Spec == Init /\ [][Next]_vars

---------------------------------------------------------------------------
(* the InfoClient of client.New on its own, over every configuration *)

InitClient ==
    /\ InitCollector
    /\ config \in Configs

\* one call of the closure New() returned
Fetch ==
    /\ fetches < MaxCalls
    /\ \E f \in Fetches(config.client) : lastFetch' = f
    /\ req' = NewRequest(config)
    /\ fetches' = fetches + 1
    /\ UNCHANGED <<config, upMetric, scrapeErrorsMetric, ch, descCh, pc, callErr,
                   callCh>>

NextClient == Fetch

SpecClient == InitClient /\ [][NextClient]_vars

---------------------------------------------------------------------------
(* Collect() calls that overlap: the metrics server may run scrapes at once. *)
(* Each operation on the gauge or on the counter vector is atomic (the       *)
(* library locks inside it); nothing is held between two of them.            *)

\* what the injected InfoClient returns to the overlapping calls
ConcResults ==
    { [status |-> ServerInfo(1, 1, 0, "25.0.1", "8.1.2", "10.5.8", "mysql"), err |-> nil],
      [status |-> ServerInfo(1, 1, 0, "25.0.1", "8.1.2", InvalidUTF8, "mysql"), err |-> nil],
      [status |-> NilServerInfo, err |-> ErrNotAuthorized],
      [status |-> NilServerInfo, err |-> ErrInjected] }

InitConc ==
    /\ InitCollector
    /\ config = [client |-> "injected", username |-> "", password |-> "",
                 authToken |-> "", userAgent |-> ""]

\* err := c.collectNextcloud(ch)
CollectFetch(p) ==
    /\ pc[p] = "idle"
    /\ \E f \in ConcResults :
         LET r == collectNextcloud(EmptyBag, f)
         IN  /\ callCh' = [callCh EXCEPT ![p] = r.ch]
             /\ callErr' = [callErr EXCEPT ![p] = r.err]
    /\ fetches' = fetches + 1
    /\ pc' = [pc EXCEPT ![p] = "fetched"]
    /\ UNCHANGED <<config, req, upMetric, scrapeErrorsMetric, ch, descCh, lastFetch>>

\* c.scrapeErrorsMetric.WithLabelValues(cause).Inc()
CollectInc(p) ==
    /\ pc[p] = "fetched"
    /\ callErr[p] # nil
    /\ scrapeErrorsMetric' = WithLabelValuesInc(scrapeErrorsMetric, errorCause(callErr[p]))
    /\ pc' = [pc EXCEPT ![p] = "counted"]
    /\ UNCHANGED <<config, req, upMetric, ch, descCh, lastFetch, fetches, callErr, callCh>>

\* c.upMetric.Set(0) after the increment, c.upMetric.Set(1) without an error
CollectSet(p) ==
    /\ \/ pc[p] = "counted" /\ upMetric' = 0
       \/ pc[p] = "fetched" /\ callErr[p] = nil /\ upMetric' = 1
    /\ pc' = [pc EXCEPT ![p] = "set"]
    /\ UNCHANGED <<config, req, scrapeErrorsMetric, ch, descCh, lastFetch, fetches,
                   callErr, callCh>>

\* c.upMetric.Collect(ch)
CollectUp(p) ==
    /\ pc[p] = "set"
    /\ callCh' = [callCh EXCEPT ![p] = upMetricCollect(callCh[p], upMetric)]
    /\ pc' = [pc EXCEPT ![p] = "upSent"]
    /\ UNCHANGED <<config, req, upMetric, scrapeErrorsMetric, ch, descCh, lastFetch,
                   fetches, callErr>>

\* c.scrapeErrorsMetric.Collect(ch), and the call returns
CollectErrors(p) ==
    /\ pc[p] = "upSent"
    /\ callCh' = [callCh EXCEPT ![p] = scrapeErrorsMetricCollect(callCh[p], scrapeErrorsMetric)]
    /\ pc' = [pc EXCEPT ![p] = "done"]
    /\ UNCHANGED <<config, req, upMetric, scrapeErrorsMetric, ch, descCh, lastFetch,
                   fetches, callErr>>

NextConc ==
    \E p \in Calls :
        CollectFetch(p) \/ CollectInc(p) \/ CollectSet(p) \/ CollectUp(p) \/ CollectErrors(p)

SpecConc == InitConc /\ [][NextConc]_vars

---------------------------------------------------------------------------
(* Vocabulary of the properties *)

\* the part of a bag of samples that belongs to the metric named fq
SamplesOf(b, fq) == [m \in { x \in BagToSet(b) : x.desc = fq } |-> b[m]]
NumSamples(b, fq) == BagCardinality(SamplesOf(b, fq))

\* the number of copies of one sample: name, value, label values
NumSample(b, fq, value, labelValues) ==
    CopiesIn([desc |-> fq, value |-> value, labelValues |-> labelValues], b)

HealthNames == {"nextcloud_up", "nextcloud_scrape_errors_total"}

\* the domain samples of a bag: everything but the two health metrics
DomainSamples(b) == [m \in { x \in BagToSet(b) : x.desc \notin HealthNames } |-> b[m]]

Causes == {"auth", "other"}

\* a document one of whose label strings no sample can carry
BadLabels(status) ==
    InvalidUTF8 \in { status.Data.Nextcloud.System.Version,
                      status.Data.Server.PHP.Version,
                      status.Data.Server.Database.Version,
                      status.Data.Server.Database.Type }

\* the outcome of a scrape, read off what was fetched
FetchFailed(f) == f.fetched.err # nil
MappingFailed(f) == f.fetched.err = nil /\ BadLabels(f.fetched.status)
ScrapeFailed(f) == FetchFailed(f) \/ MappingFailed(f)

\* a step that is one sequential Collect()
CollectStep == fetches' = fetches + 1

---------------------------------------------------------------------------
(* C1: on a failed scrape (a fetch error, or a sample that cannot be built  *)
(* in the mapping step) Collect() sends no domain sample at all, only the   *)
(* health metrics.                                                          *)
C1_NoDomainSampleOnFailure ==
    (fetches > 0 /\ ScrapeFailed(lastFetch)) => DomainSamples(ch) = EmptyBag

---------------------------------------------------------------------------
(* C2 as stated: every Collect() sends each of the two health metrics, the  *)
(* up gauge and the scrape-error counter, exactly once: one up sample, the  *)
(* counter present and no series of it twice.                               *)
C2_HealthExactlyOnce ==
    fetches > 0 =>
        /\ NumSamples(ch, "nextcloud_up") = 1
        /\ NumSamples(ch, "nextcloud_scrape_errors_total") >= 1
        /\ \A m \in BagToSet(ch) : m.desc \in HealthNames => ch[m] = 1

(* C2 amended: every Collect(), whatever its outcome, sends exactly one up  *)
(* sample, carrying the gauge, and exactly one scrape-error sample for each *)
(* cause that has been counted at least once, carrying that count; before   *)
(* the first failure the counter sends no sample.                           *)
C2_HealthOncePerChild ==
    fetches > 0 =>
        /\ NumSamples(ch, "nextcloud_up") = 1
        /\ NumSample(ch, "nextcloud_up", upMetric, <<>>) = 1
        /\ NumSamples(ch, "nextcloud_scrape_errors_total")
             = Cardinality(DOMAIN scrapeErrorsMetric)
        /\ \A c \in DOMAIN scrapeErrorsMetric :
             /\ scrapeErrorsMetric[c] >= 1
             /\ NumSample(ch, "nextcloud_scrape_errors_total",
                          scrapeErrorsMetric[c], <<c>>) = 1

C2_Witness ==
    /\ fetches = 2
    /\ DOMAIN scrapeErrorsMetric = Causes
    /\ NumSamples(ch, "nextcloud_scrape_errors_total") = 2
    /\ NumSamples(ch, "nextcloud_up") = 1

---------------------------------------------------------------------------
\* the metric names a Collect() can send: the stable names of the exporter
MetricNames ==
    { "nextcloud_up", "nextcloud_scrape_errors_total", "nextcloud_system_info",
      "nextcloud_apps_installed_total", "nextcloud_apps_updates_available_total",
      "nextcloud_users_total", "nextcloud_files_total", "nextcloud_free_space_bytes",
      "nextcloud_shares_total", "nextcloud_shares_federated_total",
      "nextcloud_active_users_total", "nextcloud_php_info",
      "nextcloud_php_memory_limit_bytes", "nextcloud_php_upload_max_size_bytes",
      "nextcloud_php_opcache_hits_total", "nextcloud_php_opcache_misses_total",
      "nextcloud_php_opcache_scripts_total", "nextcloud_php_opcache_keys_total",
      "nextcloud_php_apcu_hits_total", "nextcloud_php_apcu_misses_total",
      "nextcloud_php_apcu_inserts_total", "nextcloud_php_apcu_keys_total",
      "nextcloud_database_size_bytes" }

DescribedNames == { descCh[i].fqName : i \in 1..Len(descCh) }

\* the descriptor set of a Describe() that ran before any Collect()
FirstDescribed == { describeDescs[i].fqName : i \in 1..Len(describeDescs) }

(* C3: Describe() sends the descriptor of every metric a Collect() can      *)
(* send, the two health metrics and every domain metric, and sends that     *)
(* same set after any sequence of Collect() outcomes.                       *)
C3_DescribeSendsEveryDescriptor ==
    descCh # <<>> =>
        /\ DescribedNames = FirstDescribed
        /\ MetricNames \subseteq DescribedNames
        /\ \A m \in BagToSet(ch) : m.desc \in DescribedNames

---------------------------------------------------------------------------
(* C4: with the client of New(), a 401 makes the fetch return               *)
(* ErrNotAuthorized and Collect() count it under cause "auth"; a 429 makes  *)
(* it return ErrRatelimit, any other status but 200 the unexpected-status   *)
(* error, both counted under "other"; each time one counter grows by 1, the *)
(* other stays, and the up gauge is 0 after the Collect().                  *)
C4_StatusCodeClassification ==
    [][ (/\ CollectStep
         /\ config.client = "client.New"
         /\ lastFetch'.res.ok
         /\ lastFetch'.res.StatusCode # StatusOK)
        => LET code == lastFetch'.res.StatusCode
               cause == IF code = StatusUnauthorized THEN "auth" ELSE "other"
               expected == IF code = StatusUnauthorized THEN ErrNotAuthorized
                           ELSE IF code = StatusTooManyRequests THEN ErrRatelimit
                           ELSE ErrUnexpectedStatus(code)
           IN  /\ lastFetch'.fetched.err = expected
               /\ Count(scrapeErrorsMetric', cause) = Count(scrapeErrorsMetric, cause) + 1
               /\ \A c \in Causes \ {cause} :
                    Count(scrapeErrorsMetric', c) = Count(scrapeErrorsMetric, c)
               /\ upMetric' = 0 ]_vars

C4_Witness ==
    /\ fetches = 2
    /\ config.client = "client.New"
    /\ lastFetch.res.StatusCode = StatusTooManyRequests
    /\ lastFetch.fetched.err = ErrRatelimit
    /\ Count(scrapeErrorsMetric, "auth") = 1
    /\ Count(scrapeErrorsMetric, "other") = 1
    /\ upMetric = 0

---------------------------------------------------------------------------
(* C5: a Collect() whose fetch gets status 200 with a well-formed body sets *)
(* the up gauge to 1 and leaves every error counter as it was.              *)
C5_SuccessLeavesCounters ==
    [][ (/\ CollectStep
         /\ config.client = "client.New"
         /\ lastFetch'.res.ok
         /\ lastFetch'.res.StatusCode = StatusOK
         /\ lastFetch'.res.Body.json)
        => /\ upMetric' = 1
           /\ scrapeErrorsMetric' = scrapeErrorsMetric ]_vars

C5_Witness ==
    /\ fetches = 2
    /\ config.client = "client.New"
    /\ lastFetch.res.StatusCode = StatusOK
    /\ lastFetch.res.Body.json
    /\ upMetric = 1
    /\ Count(scrapeErrorsMetric, "other") = 1
    /\ NumSamples(ch, "nextcloud_database_size_bytes") = 1

---------------------------------------------------------------------------
\* what a scrape sends of domain samples, given only what it fetched
DomainSamplesFor(f) ==
    IF FetchFailed(f) THEN EmptyBag ELSE readMetricsOf[f.fetched.status].ch

(* C6: consecutive Collect() calls are independent: the up value and the    *)
(* domain samples of a call are determined by that call's fetch alone,      *)
(* whatever the calls before it did; the state carried over is the error    *)
(* counter, which no step decreases.                                        *)
C6_CallsIndependent ==
    [][ /\ CollectStep =>
            /\ upMetric' = (IF ScrapeFailed(lastFetch') THEN 0 ELSE 1)
            /\ NumSample(ch', "nextcloud_up", upMetric', <<>>) = 1
            /\ DomainSamples(ch') = DomainSamplesFor(lastFetch')
        /\ \A c \in Causes :
             Count(scrapeErrorsMetric', c) >= Count(scrapeErrorsMetric, c) ]_vars

C6_Witness ==
    /\ fetches = 2
    /\ Count(scrapeErrorsMetric, "auth") = 1
    /\ ~ScrapeFailed(lastFetch)
    /\ upMetric = 1
    /\ NumSample(ch, "nextcloud_up", 1, <<>>) = 1
    /\ DomainSamples(ch) # EmptyBag

---------------------------------------------------------------------------
\* the sixteen scalar gauges: metric name and the field of D it carries
ScalarFields(D) ==
    { <<"nextcloud_apps_installed_total", D.Data.Nextcloud.System.Apps.Installed>>,
      <<"nextcloud_apps_updates_available_total", D.Data.Nextcloud.System.Apps.AvailableUpdates>>,
      <<"nextcloud_users_total", D.Data.Nextcloud.Storage.Users>>,
      <<"nextcloud_files_total", D.Data.Nextcloud.Storage.Files>>,
      <<"nextcloud_free_space_bytes", D.Data.Nextcloud.System.FreeSpace>>,
      <<"nextcloud_active_users_total", D.Data.ActiveUsers.Last5Minutes>>,
      <<"nextcloud_php_memory_limit_bytes", D.Data.Server.PHP.MemoryLimit>>,
      <<"nextcloud_php_upload_max_size_bytes", D.Data.Server.PHP.UploadMaxFilesize>>,
      <<"nextcloud_php_opcache_hits_total", D.Data.Server.PHP.OpCache.Stats.Hits>>,
      <<"nextcloud_php_opcache_misses_total", D.Data.Server.PHP.OpCache.Stats.Misses>>,
      <<"nextcloud_php_opcache_scripts_total", D.Data.Server.PHP.OpCache.Stats.CachedScripts>>,
      <<"nextcloud_php_opcache_keys_total", D.Data.Server.PHP.OpCache.Stats.CachedKeys>>,
      <<"nextcloud_php_apcu_hits_total", D.Data.Server.PHP.APCu.Cache.Hits>>,
      <<"nextcloud_php_apcu_misses_total", D.Data.Server.PHP.APCu.Cache.Misses>>,
      <<"nextcloud_php_apcu_inserts_total", D.Data.Server.PHP.APCu.Cache.Inserts>>,
      <<"nextcloud_php_apcu_keys_total", D.Data.Server.PHP.APCu.Cache.Entries>> }

\* the label values of the samples of one metric
LabelsOf(b, fq) == { m.labelValues : m \in { x \in BagToSet(b) : x.desc = fq } }

\* the last Collect() fetched a document and mapped all of it
MappedDocument == fetches > 0 /\ ~ScrapeFailed(lastFetch)

(* C7: for every valid status document D the mapping sends exactly one      *)
(* sample for each of the 16 scalar gauges, its value the field of D,       *)
(* exactly 4 share samples (type user, group, link, authlink) and exactly 2 *)
(* federation samples (direction sent, received), zero fields included.     *)
C7_MappingComplete ==
    MappedDocument =>
        LET D == lastFetch.fetched.status
        IN  /\ Cardinality(ScalarFields(D)) = 16
            /\ \A e \in ScalarFields(D) :
                 /\ NumSamples(ch, e[1]) = 1
                 /\ NumSample(ch, e[1], e[2], <<>>) = 1
            /\ NumSamples(ch, "nextcloud_shares_total") = 4
            /\ LabelsOf(ch, "nextcloud_shares_total")
                 = {<<"user">>, <<"group">>, <<"link">>, <<"authlink">>}
            /\ NumSample(ch, "nextcloud_shares_total",
                         D.Data.Nextcloud.Shares.SharesUser, <<"user">>) = 1
            /\ NumSample(ch, "nextcloud_shares_total",
                         D.Data.Nextcloud.Shares.SharesGroups, <<"group">>) = 1
            /\ NumSamples(ch, "nextcloud_shares_federated_total") = 2
            /\ NumSample(ch, "nextcloud_shares_federated_total",
                         D.Data.Nextcloud.Shares.FedSent, <<"sent">>) = 1
            /\ NumSample(ch, "nextcloud_shares_federated_total",
                         D.Data.Nextcloud.Shares.FedReceived, <<"received">>) = 1

\* a document of zeros, mapped
C7_Witness ==
    /\ MappedDocument
    /\ lastFetch.fetched.status.Data.Nextcloud.Storage.Users = 0
    /\ lastFetch.fetched.status.Data.Nextcloud.Shares.SharesLink = 0
    /\ lastFetch.fetched.status.Data.Nextcloud.Shares.FedReceived = 0
    /\ NumSample(ch, "nextcloud_users_total", 0, <<>>) = 1
    /\ NumSamples(ch, "nextcloud_shares_total") = 4
    /\ NumSamples(ch, "nextcloud_shares_federated_total") = 2

---------------------------------------------------------------------------
(* C8: the shares sample of type "authlink" carries linkShares minus        *)
(* linkSharesNoPassword for all non-negative inputs: 0 when they are equal, *)
(* the negative difference, unclamped, when linkSharesNoPassword is the     *)
(* larger; the sample of type "link" carries linkShares unchanged.          *)
C8_AuthlinkIsDifference ==
    MappedDocument =>
        LET shares == lastFetch.fetched.status.Data.Nextcloud.Shares
            authlink == { m \in BagToSet(ch) : /\ m.desc = "nextcloud_shares_total"
                                               /\ m.labelValues = <<"authlink">> }
            link == { m \in BagToSet(ch) : /\ m.desc = "nextcloud_shares_total"
                                           /\ m.labelValues = <<"link">> }
        IN  /\ \A m \in authlink :
                 /\ m.value = shares.SharesLink - shares.SharesLinkNoPassword
                 /\ shares.SharesLinkNoPassword = shares.SharesLink => m.value = 0
                 /\ shares.SharesLinkNoPassword > shares.SharesLink => m.value < 0
                 /\ ch[m] = 1
            /\ Cardinality(authlink) = 1
            /\ \A m \in link : m.value = shares.SharesLink /\ ch[m] = 1
            /\ Cardinality(link) = 1

\* more link shares without a password than link shares: a negative sample
C8_Witness ==
    /\ MappedDocument
    /\ lastFetch.fetched.status.Data.Nextcloud.Shares.SharesLink = 0
    /\ lastFetch.fetched.status.Data.Nextcloud.Shares.SharesLinkNoPassword = 1
    /\ NumSample(ch, "nextcloud_shares_total", -1, <<"authlink">>) = 1
    /\ NumSample(ch, "nextcloud_shares_total", 0, <<"link">>) = 1

---------------------------------------------------------------------------
(* C9: every request the InfoClient builds carries exactly one auth         *)
(* mechanism, for every combination of empty and non-empty username,        *)
(* password and token: the NC-Token header and no basic auth when the token *)
(* is non-empty, basic auth and no NC-Token header when it is empty; the    *)
(* configured User-Agent is set in both cases.                              *)
C9_ExactlyOneAuth ==
    fetches > 0 =>
        LET h == req.Header
        IN  /\ req.Method = "GET"
            /\ config.authToken # "" =>
                 /\ "NC-Token" \in DOMAIN h
                 /\ h["NC-Token"] = <<config.authToken>>
                 /\ "Authorization" \notin DOMAIN h
            /\ config.authToken = "" =>
                 /\ "Authorization" \in DOMAIN h
                 /\ h["Authorization"] = <<"Basic", config.username, config.password>>
                 /\ "NC-Token" \notin DOMAIN h
            /\ "User-Agent" \in DOMAIN h
            /\ h["User-Agent"] = <<config.userAgent>>

\* username, password and token all set: the token wins
C9_Witness ==
    /\ fetches > 0
    /\ config.username # "" /\ config.password # "" /\ config.authToken # ""
    /\ DOMAIN req.Header = {"NC-Token", "User-Agent"}

---------------------------------------------------------------------------
\* the up samples an overlapping call has sent, and the outcome of a call
UpSent(p) == { m.value : m \in { x \in BagToSet(callCh[p]) : x.desc = "nextcloud_up" } }
Outcome(p) == IF callErr[p] = nil THEN 1 ELSE 0
HasSetGauge(p) == pc[p] \in {"set", "upSent", "done"}
HasSentUp(p) == pc[p] \in {"upSent", "done"}
AllDone == \A p \in Calls : pc[p] = "done"
ErrorTotal == Count(scrapeErrorsMetric, "auth") + Count(scrapeErrorsMetric, "other")

(* C10 as stated: when Collect() calls overlap, the up sample each call     *)
(* sends equals that call's own outcome (1 iff its fetch and mapping        *)
(* succeeded), and after the calls the error counters sum to the number of  *)
(* failed calls.                                                            *)
C10_UpIsOwnOutcome ==
    /\ \A p \in Calls : HasSentUp(p) => UpSent(p) = {Outcome(p)}
    /\ AllDone => ErrorTotal = Cardinality({ p \in Calls : callErr[p] # nil })

(* C10 amended: when Collect() calls overlap, each call sends exactly one   *)
(* up sample, and it equals the outcome of a call that had set the gauge by *)
(* then, its own or an overlapping one's (the last Set wins); after the     *)
(* calls the error counters sum to the number of failed calls.              *)
C10_UpIsSomeSetOutcome ==
    /\ \A p \in Calls :
         HasSentUp(p) =>
             /\ NumSamples(callCh[p], "nextcloud_up") = 1
             /\ \E q \in Calls : HasSetGauge(q) /\ UpSent(p) = {Outcome(q)}
    /\ \A p \in Calls :
         (HasSentUp(p) /\ \A q \in Calls \ {p} : pc[q] = "idle")
             => UpSent(p) = {Outcome(p)}
    /\ AllDone => ErrorTotal = Cardinality({ p \in Calls : callErr[p] # nil })

\* a call that succeeded sent up = 0, the gauge an overlapping failed call set
C10_Witness ==
    /\ AllDone
    /\ \E p \in Calls : callErr[p] = nil /\ UpSent(p) = {0}
    /\ ErrorTotal = 1

====
